---- MODULE Spec2Model ----
(***************************************************************************)
(* A model of the event recommender: the fuzzy inference engine            *)
(* (fuzzy_sets.py, a scikit-fuzzy control system), the feature scorer      *)
(* (FuzzyScorer.py) and the entities of db.py.                             *)
(*                                                                         *)
(* Numbers.  The engine works on the universe np.arange(0, 1.01, 0.01).    *)
(* A universe value is modelled as an integer number of X units, 600 of    *)
(* them making 1.0 (one grid step of 0.01 is 6 units), and a membership    *)
(* degree as an integer number of Y units, 360 of them making 1.0.  For    *)
(* inputs that are multiples of 0.1 every membership, every cut point and  *)
(* every sample of the aggregated output set is an integer on these        *)
(* scales, so the arithmetic below is exact.                               *)
(***************************************************************************)
EXTENDS Integers, Sequences, FiniteSets, TLC

VARIABLES
    sim,        \* the ControlSystemSimulation of one FuzzySystem instance
    rec,        \* what the last makeRecommendation call did
    user,       \* a db.User
    prefs,      \* a db.Preferences
    event,      \* a db.Event
    out         \* what the last scorer / entity operation did

vars == <<sim, rec, user, prefs, event, out>>

(***************************************************************************)
(* Arithmetic helpers                                                      *)
(***************************************************************************)
XOne == 6 * 100
YOne == 12 * 30
XStep == XOne \div 100
Tenth(t) == t * (XOne \div 10)

Max(S) == CHOOSE m \in S : \A y \in S : y <= m
Min(S) == CHOOSE m \in S : \A y \in S : m <= y

\* a/b <= c/d for a, c >= 0 and b, d > 0, without forming the cross products
RECURSIVE LeqFrac(_, _, _, _)
LeqFrac(a, b, c, d) ==
    LET qa == a \div b
        qc == c \div d
        ra == a % b
        rc == c % d
    IN  IF qa # qc THEN qa < qc
        ELSE IF ra = 0 THEN TRUE
        ELSE IF rc = 0 THEN FALSE
        ELSE LeqFrac(d, rc, b, ra)

(***************************************************************************)
(* fuzzy_sets.py: the fuzzy sets                                           *)
(***************************************************************************)
Terms == {"low", "medium", "high"}
Antecedents == {"price_match", "distance_match", "popularity_range",
                "interest_match", "start_hour_match", "length_match"}

\* skfuzzy.trimf(x, [a, b, c]) in Y units
trimf(x, a, b, c) ==
    IF x = b THEN YOne
    ELSE IF a # b /\ a < x /\ x < b THEN (YOne * (x - a)) \div (b - a)
    ELSE IF b # c /\ b < x /\ x < c THEN (YOne * (c - x)) \div (c - b)
    ELSE 0

\* create_sets: the [a, b, c] of every term, in X units
create_sets(var, term) ==
    IF var = "recommendation_match"
    THEN CASE term = "low"    -> <<0, 2 * (XOne \div 10), 4 * (XOne \div 10)>>
           [] term = "medium" -> <<3 * (XOne \div 10), 5 * (XOne \div 10), 8 * (XOne \div 10)>>
           [] term = "high"   -> <<7 * (XOne \div 10), XOne, XOne>>
    ELSE CASE term = "low"    -> <<0, 0, 4 * (XOne \div 10)>>
           [] term = "medium" -> <<2 * (XOne \div 10), 5 * (XOne \div 10), 8 * (XOne \div 10)>>
           [] term = "high"   -> <<6 * (XOne \div 10), XOne, XOne>>

\* skfuzzy.interp_membership(universe, var[term].mf, x) for x on the X scale
interp_membership(var, term, x) ==
    LET abc == create_sets(var, term)
    IN  trimf(x, abc[1], abc[2], abc[3])

(***************************************************************************)
(* fuzzy_sets.py: the rule base.  inp is the record of the six inputs in   *)
(* X units; & is np.fmin and | is np.fmax of the memberships.              *)
(***************************************************************************)
mu(inp, var, term) == interp_membership(var, term, inp[var])

Rule1(inp) == Min({mu(inp, "price_match", "high"), mu(inp, "distance_match", "high"),
                   mu(inp, "popularity_range", "high"), mu(inp, "interest_match", "high"),
                   mu(inp, "start_hour_match", "high"), mu(inp, "length_match", "high")})
Rule2(inp) == Min({mu(inp, "price_match", "high"), mu(inp, "distance_match", "high"),
                   mu(inp, "popularity_range", "medium"), mu(inp, "interest_match", "high"),
                   mu(inp, "start_hour_match", "high"), mu(inp, "length_match", "high")})
Rule3(inp) == Min({mu(inp, "price_match", "high"), mu(inp, "distance_match", "medium"),
                   mu(inp, "popularity_range", "high"), mu(inp, "interest_match", "high"),
                   mu(inp, "start_hour_match", "high"), mu(inp, "length_match", "high")})
Rule4(inp) == Min({mu(inp, "price_match", "high"), mu(inp, "distance_match", "high"),
                   mu(inp, "popularity_range", "high"), mu(inp, "interest_match", "high"),
                   mu(inp, "start_hour_match", "medium"), mu(inp, "length_match", "high")})
Rule5(inp) == Min({mu(inp, "price_match", "medium"), mu(inp, "distance_match", "medium"),
                   mu(inp, "interest_match", "medium")})
Rule6(inp) == Min({mu(inp, "start_hour_match", "high"), mu(inp, "length_match", "medium"),
                   mu(inp, "popularity_range", "medium")})
Rule7(inp) == Min({mu(inp, "price_match", "high"), mu(inp, "popularity_range", "high"),
                   mu(inp, "interest_match", "medium")})
Rule8(inp) == Min({mu(inp, "interest_match", "high"), mu(inp, "length_match", "medium"),
                   mu(inp, "popularity_range", "low"), mu(inp, "price_match", "medium")})
Rule9(inp) == Min({mu(inp, "price_match", "low"), mu(inp, "distance_match", "low"),
                   mu(inp, "popularity_range", "low"), mu(inp, "interest_match", "low"),
                   mu(inp, "start_hour_match", "low"), mu(inp, "length_match", "low")})
Rule10(inp) == Min({mu(inp, "price_match", "low"), mu(inp, "distance_match", "medium"),
                    mu(inp, "popularity_range", "low"), mu(inp, "interest_match", "low"),
                    mu(inp, "start_hour_match", "low"), mu(inp, "length_match", "low")})
Rule11(inp) == Max({mu(inp, "price_match", "medium"), mu(inp, "distance_match", "medium"),
                    mu(inp, "interest_match", "medium")})
\* Rule12 reading the high term of the interest where it reads the low one
Rule12_interest_high(inp) ==
    Max({mu(inp, "price_match", "low"), mu(inp, "distance_match", "low"),
         mu(inp, "interest_match", "high")})

Rule12(inp) == Max({mu(inp, "price_match", "low"), mu(inp, "distance_match", "low"),
                    mu(inp, "interest_match", "low")})

\* create_rules with the consequents high and low exchanged
create_rules_swapped(inp) ==
    [high   |-> {Rule9(inp), Rule10(inp), Rule12(inp)},
     medium |-> {Rule5(inp), Rule6(inp), Rule7(inp), Rule8(inp), Rule11(inp)},
     low    |-> {Rule1(inp), Rule2(inp), Rule3(inp), Rule4(inp)}]

\* create_rules: the firing strengths of the rules of each consequent term
create_rules(inp) ==
    [high   |-> {Rule1(inp), Rule2(inp), Rule3(inp), Rule4(inp)},
     medium |-> {Rule5(inp), Rule6(inp), Rule7(inp), Rule8(inp), Rule11(inp)},
     low    |-> {Rule9(inp), Rule10(inp), Rule12(inp)}]

(***************************************************************************)
(* fuzzy_sets.py, makeRecommendation: self.simulator.compute().            *)
(* The simulation keeps its state per input combination (the unique id     *)
(* of the current inputs): the membership value of every output term, the  *)
(* crisp output, and the list of input combinations already calculated.    *)
(***************************************************************************)
NoCuts == [high |-> -1, medium |-> -1, low |-> -1]     \* membership_value is None

\* np.fmax accumulation of a rule's activation into a term's membership value
accumulate(old, fired) == Max((IF old < 0 THEN {} ELSE {old}) \cup fired)

\* compute(), the rules: only the consequent of the first rule (high) is
\* cleared before the rules are calculated; the other terms accumulate onto
\* what this input combination already holds.
compute_rules(old, inp) ==
    LET fired == create_rules(inp)
    IN  [high   |-> accumulate(-1, fired.high),
         medium |-> accumulate(old.medium, fired.medium),
         low    |-> accumulate(old.low, fired.low)]

\* skfuzzy.interp_universe: where an output term crosses its cut
interp_universe(term, cut) ==
    LET abc == create_sets("recommendation_match", term)
        a == abc[1]
        b == abc[2]
        c == abc[3]
    IN  (IF a # b THEN {a + (cut * (b - a)) \div YOne} ELSE {})
        \cup (IF b # c THEN {c - (cut * (c - b)) \div YOne} ELSE {})

\* find_memberships: the points added to the output universe
cut_points(cuts) ==
    UNION {interp_universe(term, cuts[term]) : term \in Terms}

\* find_memberships: the aggregated output set, each term clipped to its cut
output_mf(cuts, x) ==
    Max({Min({cuts[term], interp_membership("recommendation_match", term, x)}) :
            term \in Terms})

\* one trapezoid of skfuzzy.defuzzify.centroid, between the universe point x1
\* and the next one: <<moment * area, area>>, both times 6
segment(cuts, cps, x1) ==
    LET x2 == Min({q \in (x1 + 1)..(x1 + XStep) : q % XStep = 0 \/ q \in cps})
        y1 == output_mf(cuts, x1)
        y2 == output_mf(cuts, x2)
        dx == x2 - x1
    IN  <<dx * (3 * x1 * (y1 + y2) + dx * (y1 + 2 * y2)), 3 * dx * (y1 + y2)>>

\* skfuzzy.defuzzify.centroid: component k of the sums over the trapezoids
\* that start at a point of the upsampled universe in lo..lo + 2^n - 1
RECURSIVE centroid(_, _, _, _, _)
centroid(k, cuts, cps, lo, n) ==
    IF n = 0
    THEN IF lo < XOne /\ (lo % XStep = 0 \/ lo \in cps)
         THEN segment(cuts, cps, lo)[k]
         ELSE 0
    ELSE centroid(k, cuts, cps, lo, n - 1)
         + centroid(k, cuts, cps, lo + 2 ^ (n - 1), n - 1)

RECURSIVE gcd(_, _)
gcd(a, b) == IF b = 0 THEN a ELSE CHOOSE g \in {gcd(b, r) : r \in {a % b}} : TRUE

\* CrispValueCalculator.defuzz: the crisp output as a fraction of X units,
\* or the error skfuzzy raises when the aggregated output set is empty
defuzzify(cuts) ==
    IF \A term \in Terms : cuts[term] = 0
    THEN [status |-> "ValueError", n |-> 0, d |-> 1]
    ELSE CHOOSE crisp \in
             {[status |-> "ok", n |-> nd[1] \div nd[3], d |-> nd[2] \div nd[3]] :
                 nd \in {<<moment, area, gcd(moment, area)>> :
                            moment \in {centroid(1, cuts, cps, 0, 10) :
                                           cps \in {cut_points(cuts)}},
                            area \in {centroid(2, cuts, cps, 0, 10) :
                                         cps \in {cut_points(cuts)}}}} : TRUE

\* the six inputs of one call, in tenths
Inputs(p, d, po, i, s, l) ==
    [price_match |-> Tenth(p), distance_match |-> Tenth(d),
     popularity_range |-> Tenth(po), interest_match |-> Tenth(i),
     start_hour_match |-> Tenth(s), length_match |-> Tenth(l)]

\* the input combinations the calls are drawn from: all six scores equal,
\* five scores at 0.5 with any interest, the combinations with price,
\* distance and interest fully high and popularity fully low, and mixed ones
FuzzyInputs ==
    {Inputs(t, t, t, t, t, t) : t \in 0..10}
    \cup {Inputs(5, 5, 5, t, 5, 5) : t \in 0..10}
    \cup {Inputs(10, 10, 0, 10, s, l) : s \in {0, 10}, l \in {0, 10}}
    \cup {Inputs(10, 10, 5, 10, 10, 10), Inputs(10, 5, 10, 10, 10, 10),
          Inputs(0, 5, 0, 0, 0, 0), Inputs(10, 0, 10, 5, 10, 5),
          Inputs(5, 0, 0, 10, 0, 5), Inputs(8, 8, 3, 9, 10, 10)}

\* the crisp outputs of the cuts the rules give on FuzzyInputs, calculated once
defuzz_table ==
    [c \in {compute_rules(NoCuts, inp) : inp \in FuzzyInputs} |-> defuzzify(c)]

\* CrispValueCalculator.defuzz, through the table where it holds the cuts
defuzz(cuts) ==
    IF cuts \in DOMAIN defuzz_table THEN defuzz_table[cuts] ELSE defuzzify(cuts)

\* membership of the crisp value n/d in an output term, times d, in Y units
interp_membership_frac(term, n, d) ==
    LET abc == create_sets("recommendation_match", term)
        a == abc[1]
        b == abc[2]
        c == abc[3]
    IN  IF n = b * d THEN YOne * d
        ELSE IF a # b /\ a * d < n /\ n < b * d THEN (YOne \div (b - a)) * (n - a * d)
        ELSE IF b # c /\ b * d < n /\ n < c * d THEN (YOne \div (c - b)) * (c * d - n)
        ELSE 0

\* getRecommendationLabel with the last maximal key winning a tie
getRecommendationLabel_last_wins(n, d) ==
    LET low_membership == interp_membership_frac("low", n, d)
        medium_membership == interp_membership_frac("medium", n, d)
        high_membership == interp_membership_frac("high", n, d)
    IN  IF high_membership >= medium_membership /\ high_membership >= low_membership
        THEN "high"
        ELSE IF medium_membership >= low_membership THEN "medium"
        ELSE "low"

\* getRecommendationLabel: max(memberships, key=memberships.get), the first
\* maximal key in the order low, medium, high
getRecommendationLabel(n, d) ==
    LET low_membership == interp_membership_frac("low", n, d)
        medium_membership == interp_membership_frac("medium", n, d)
        high_membership == interp_membership_frac("high", n, d)
    IN  IF low_membership >= medium_membership /\ low_membership >= high_membership
        THEN "low"
        ELSE IF medium_membership >= high_membership THEN "medium"
        ELSE "high"

\* the simulation after construction (FuzzySystem.__init__)
FreshSim == [calculated |-> {}, cuts |-> <<>>, output |-> <<>>]

\* the membership values of the output terms kept per simulation instead of
\* per input combination: what the earlier calls left, whatever their inputs
membership_value_per_simulation(s, inp) ==
    [term \in Terms |-> Max({-1} \cup {s.cuts[x][term] : x \in DOMAIN s.cuts})]

\* the membership values of the output terms that the simulation holds for
\* the input combination inp before the rules are calculated
membership_value(s, inp) ==
    IF inp \in DOMAIN s.cuts THEN s.cuts[inp] ELSE NoCuts

\* compute(), the end: the membership values are stored under the input
\* combination; the crisp output is stored and the combination is marked as
\* calculated only when the defuzzification did not raise
compute_output(s, inp, cuts, crisp) ==
    LET withCuts == [x \in DOMAIN s.cuts \cup {inp} |->
                         IF x = inp THEN cuts ELSE s.cuts[x]]
    IN  IF crisp.status # "ok"
        THEN [sim |-> [s EXCEPT !.cuts = withCuts],
              status |-> crisp.status, n |-> 0, d |-> 1]
        ELSE [sim |-> [calculated |-> s.calculated \cup {inp},
                       cuts |-> withCuts,
                       output |-> [x \in DOMAIN s.output \cup {inp} |->
                                      IF x = inp THEN [n |-> crisp.n, d |-> crisp.d]
                                      ELSE s.output[x]]],
              status |-> "ok", n |-> crisp.n, d |-> crisp.d]

\* ControlSystemSimulation.compute() on inputs inp: the new simulation state
\* and the outcome
compute(s, inp) ==
    IF inp \in s.calculated
    THEN [sim |-> s, status |-> "ok", n |-> s.output[inp].n, d |-> s.output[inp].d]
    ELSE CHOOSE r \in
             UNION {{compute_output(s, inp, cuts, crisp) : crisp \in {defuzz(cuts)}} :
                       cuts \in {compute_rules(membership_value(s, inp), inp)}} : TRUE

\* what makeRecommendation hands back: (label, output * 100) with the percent
\* as the fraction num/den, or the error compute() raised
recommendation(inp, r) ==
    IF r.status = "ok"
    THEN [inp |-> inp, status |-> "ok", label |-> getRecommendationLabel(r.n, r.d),
          num |-> r.n, den |-> XStep * r.d]
    ELSE [inp |-> inp, status |-> r.status, label |-> "none", num |-> 0, den |-> 1]

(***************************************************************************)
(* Values of the scorer.  A score is the fraction n/d with d > 0; None     *)
(* is the empty tuple and a value that is set is the one-tuple of it;      *)
(* a call yields [status, value], the status naming the exception raised.  *)
(***************************************************************************)
None == <<>>
Some(v) == <<v>>
IsNone(o) == Len(o) = 0
Get(o) == o[1]

Frac(n, d) == IF d < 0 THEN [n |-> -n, d |-> -d] ELSE [n |-> n, d |-> d]
Zero == Frac(0, 1)
One == Frac(1, 1)
Half == Frac(1, 2)
FracEq(f, g) == f.n * g.d = g.n * f.d
FracLeq(f, g) == f.n * g.d <= g.n * f.d

\* the real number rat + coef * sqrt(rad): rat and coef fractions, rad a
\* fraction >= 0.  The value of math.sqrt is kept as the root it is.
Surd(rat, coef, rad) == [rat |-> rat, coef |-> coef, rad |-> rad]

\* a + c * sqrt(q) >= 0, by the signs of a and c and the squares c^2 * q, a^2
SurdGeqZero(a, c, q) ==
    IF c.n >= 0
    THEN a.n >= 0 \/ LeqFrac(a.n * a.n, a.d * a.d, c.n * c.n * q.n, c.d * c.d * q.d)
    ELSE a.n >= 0 /\ LeqFrac(c.n * c.n * q.n, c.d * c.d * q.d, a.n * a.n, a.d * a.d)

\* 0 <= f <= 1 for a score f, a fraction or a real with a root
InUnit(f) ==
    IF "rad" \in DOMAIN f
    THEN /\ SurdGeqZero(f.rat, f.coef, f.rad)
         /\ SurdGeqZero(Frac(f.rat.d - f.rat.n, f.rat.d), Frac(-f.coef.n, f.coef.d), f.rad)
    ELSE 0 <= f.n /\ f.n <= f.d
\* max(0.0, min(1.0, x))
clamp(f) == IF f.n <= 0 THEN Zero ELSE IF f.n >= f.d THEN One ELSE f
OneMinus(f) == Frac(f.d - f.n, f.d)

Ok(v) == [status |-> "ok", value |-> v]
Raise(e) == [status |-> e, value |-> Zero]

Abs(x) == IF x < 0 THEN -x ELSE x

RECURSIVE SumOf(_, _)
SumOf(seq, field) ==
    IF Len(seq) = 0 THEN 0 ELSE Head(seq)[field] + SumOf(Tail(seq), field)

(***************************************************************************)
(* db.py: the entities.  Times are seconds; the name and the description   *)
(* of an event are left out.                                               *)
(***************************************************************************)
\* Event.__init__
Event(event_type, price, distance, popularity, event_length, start_hour) ==
    [type |-> event_type, price |-> price, distance |-> distance,
     popularity |-> popularity, event_length |-> event_length,
     start_hour |-> start_hour, score |-> 0]

\* the Event object at the address id: two objects built from the same
\* arguments differ in it, and Event defines no __eq__
Object(id, e) == [k \in DOMAIN e \cup {"id"} |-> IF k = "id" THEN id ELSE e[k]]

\* Event.get_vector
get_vector(e) == <<e.price, e.distance, e.popularity>>

\* User.update: the three means as fractions, or the division by len() = 0
update(events) ==
    IF Len(events) = 0 THEN Raise("ZeroDivisionError")
    ELSE Ok([mean_price |-> Frac(SumOf(events, "price"), Len(events)),
             mean_distance |-> Frac(SumOf(events, "distance"), Len(events)),
             mean_popularity |-> Frac(SumOf(events, "popularity"), Len(events))])

\* a User object holding events and the means m
UserOf(events, m) ==
    [events |-> events, mean_price |-> m.mean_price,
     mean_distance |-> m.mean_distance, mean_popularity |-> m.mean_popularity]

\* Preferences.__init__
Preferences(max_distance, categories, preferred_times, budget, attended_events) ==
    [max_distance |-> max_distance, categories |-> categories,
     preferred_times |-> preferred_times, budget |-> budget,
     attended_events |-> attended_events]

\* Preferences.get_category_interest: self.categories.get(category, 0), the
\* weights in hundredths
get_category_interest(p, category) ==
    IF IsNone(p.categories) THEN Raise("AttributeError")
    ELSE Ok(IF category \in DOMAIN Get(p.categories)
            THEN Frac(Get(p.categories)[category], 100)
            ELSE Zero)

\* Preferences.get_attended_category_counts: Counter(event.type for ...)
get_attended_category_counts(p) ==
    IF IsNone(p.attended_events) THEN Raise("TypeError")
    ELSE LET att == Get(p.attended_events)
             types == {att[i].type : i \in DOMAIN att}
         IN  Ok([t \in types |-> Cardinality({i \in DOMAIN att : att[i].type = t})])

(***************************************************************************)
(* FuzzyScorer.py.  u is self.user, p is self.preferences, e the event.    *)
(***************************************************************************)
\* normalize(value, min_val, max_val), the three on one integer scale
normalize(value, min_val, max_val) ==
    IF max_val = min_val THEN Half
    ELSE clamp(Frac(value - min_val, max_val - min_val))

\* _vector_similarity: normalize(dist, 0, max_dist) with dist and max_dist
\* the roots of dist2 and max2, both scaled by the number of events of the
\* user: the root of dist2 / max2, and 1 when dist >= max_dist
vector_similarity(u, e) ==
    LET n == u.mean_price.d
        us == <<u.mean_price.n, u.mean_distance.n, u.mean_popularity.n>>
        es == <<n * e.price, n * e.distance, n * e.popularity>>
        mx(k) == IF us[k] >= es[k] THEN us[k] ELSE es[k]
        ceil(k) == IF mx(k) # 0 THEN mx(k) ELSE n
        dist2 == (us[1] - es[1]) * (us[1] - es[1]) + (us[2] - es[2]) * (us[2] - es[2])
                 + (us[3] - es[3]) * (us[3] - es[3])
        max2 == ceil(1) * ceil(1) + ceil(2) * ceil(2) + ceil(3) * ceil(3)
    IN  IF dist2 >= max2 THEN Surd(Zero, One, One)
        ELSE Surd(Zero, One, Frac(dist2 \div gcd(dist2, max2), max2 \div gcd(dist2, max2)))

\* _history_boost
history_boost(p, e) ==
    LET c == get_attended_category_counts(p)
    IN  IF c.status # "ok" THEN c
        ELSE IF DOMAIN c.value = {} THEN Ok(Zero)
        ELSE LET counts == c.value
                 max_c == Max({counts[t] : t \in DOMAIN counts})
                 mine == IF e.type \in DOMAIN counts THEN counts[e.type] ELSE 0
             IN  Ok(normalize(mine, 0, max_c))

\* score_interest: base_sim * 0.6 + cat_weight * 0.3 + history * 0.1 with
\* base_sim = 1 - _vector_similarity(event), the root kept as a root
score_interest(u, p, e) ==
    LET sim_ == vector_similarity(u, e)
        cat_weight == get_category_interest(p, e.type)
        history == history_boost(p, e)
    IN  IF cat_weight.status # "ok" THEN cat_weight
        ELSE IF history.status # "ok" THEN history
        ELSE LET c == cat_weight.value
                 h == history.value
             IN  Ok(Surd(Frac(6 * c.d * h.d + 3 * c.n * h.d + h.n * c.d, 10 * c.d * h.d),
                         Frac(-6 * sim_.coef.n, 10 * sim_.coef.d),
                         sim_.rad))

\* score_distance
score_distance(p, e) ==
    LET d == e.distance
        md == p.max_distance
    IN  IF md <= 0 THEN Ok(Half)
        ELSE Ok(clamp(Frac(md - d, md)))

\* score_start_hour: the distance in hours to the start of the first
\* preferred window, over a tolerance of 3 hours
score_start_hour(p, e) ==
    IF IsNone(p.preferred_times) \/ Len(Get(p.preferred_times)) = 0 THEN Ok(Half)
    ELSE LET pref_start == Get(p.preferred_times)[1][1]
             diff == Abs(e.start_hour - pref_start)
         IN  Ok(clamp(OneMinus(normalize(diff, 0, 3 * 3600))))

\* score_length, the lengths scaled by the number of events of the user
\* (avg_len or 1: one hour, the unit of event_length in the code)
score_length(u, e) ==
    LET n == IF Len(u.events) # 0 THEN Len(u.events) ELSE 1
        avg_len == IF Len(u.events) # 0 THEN SumOf(u.events, "event_length")
                   ELSE e.event_length
        ceil == IF avg_len # 0 THEN avg_len ELSE n * 3600
    IN  Ok(clamp(OneMinus(normalize(Abs(n * e.event_length - avg_len), 0, ceil))))

\* score_budget without the clamp to [0, 1]
score_budget_unclamped(p, e) ==
    IF "budget_for_category" \notin DOMAIN p THEN Raise("AttributeError")
    ELSE LET cost == e.price
             b == p.budget_for_category
             global == IF "global" \in DOMAIN b THEN b["global"] ELSE 0
             max_b == IF e.type \in DOMAIN b THEN b[e.type] ELSE global
         IN  IF cost <= 0 THEN Ok(One)
             ELSE IF max_b <= 0 THEN Ok(Zero)
             ELSE Ok(Frac(max_b - cost, max_b))

\* score_budget
score_budget(p, e) ==
    IF "budget_for_category" \notin DOMAIN p THEN Raise("AttributeError")
    ELSE LET cost == e.price
             b == p.budget_for_category
             global == IF "global" \in DOMAIN b THEN b["global"] ELSE 0
             max_b == IF e.type \in DOMAIN b THEN b[e.type] ELSE global
         IN  IF cost <= 0 THEN Ok(One)
             ELSE IF max_b <= 0 THEN Ok(Zero)
             ELSE Ok(clamp(Frac(max_b - cost, max_b)))

\* compute_features: the dictionary of the six scores, or the first
\* exception a scorer raises
compute_features(u, p, e) ==
    LET pop == Frac(IF e.popularity < 0 THEN 0
                    ELSE IF e.popularity > 100 THEN 100 ELSE e.popularity, 100)
        price == score_budget(p, e)
        distance == score_distance(p, e)
        interest == score_interest(u, p, e)
        start_hour == score_start_hour(p, e)
        length == score_length(u, e)
    IN  IF price.status # "ok" THEN [status |-> price.status, value |-> <<>>]
        ELSE IF distance.status # "ok" THEN [status |-> distance.status, value |-> <<>>]
        ELSE IF interest.status # "ok" THEN [status |-> interest.status, value |-> <<>>]
        ELSE IF start_hour.status # "ok" THEN [status |-> start_hour.status, value |-> <<>>]
        ELSE IF length.status # "ok" THEN [status |-> length.status, value |-> <<>>]
        ELSE Ok([price |-> price.value, distance |-> distance.value,
                 popularity |-> pop, interest |-> interest.value,
                 start_hour |-> start_hour.value, length |-> length.value])

(***************************************************************************)
(* The calls on one FuzzySystem instance                                   *)
(***************************************************************************)
MaxCalls == 2

\* makeRecommendation(price, distance, popularity, interest, start_hour, length)
makeRecommendation(inp) ==
    /\ Len(rec) < MaxCalls
    /\ \E r \in {compute(sim, inp)} :
           /\ sim' = r.sim
           /\ rec' = Append(rec, recommendation(inp, r))
    /\ UNCHANGED <<user, prefs, event, out>>

NoCall == [op |-> "none", status |-> "none", value |-> Zero]

InitFuzzy ==
    /\ sim = FreshSim
    /\ rec = <<>>
    /\ user = None
    /\ prefs = None
    /\ event = None
    /\ out = NoCall

NextFuzzy == \E inp \in FuzzyInputs : makeRecommendation(inp)

SpecFuzzy == InitFuzzy /\ [][NextFuzzy]_vars

(***************************************************************************)
(* The calls on one FuzzyScorer.  The scorer is built on a user, a         *)
(* preferences object and is handed an event; every method is an action.   *)
(***************************************************************************)
MaxHistory == 2

Hour(h) == h * 3600

\* the events a user has attended, as the lists handed to User
PastEvents ==
    {Object(3, Event("music", 40, 5, 80, Hour(3), Hour(19))),
     Object(4, Event("tech", 60, 10, 70, Hour(3) \div 2, Hour(17)))}

RECURSIVE SeqsUpTo(_, _)
SeqsUpTo(S, n) ==
    IF n = 0 THEN {<<>>}
    ELSE LET shorter == SeqsUpTo(S, n - 1)
         IN  shorter \cup {Append(q, x) : q \in shorter, x \in S}

\* User.__init__ on a list of events: the object, or None when update() raises
User(events) ==
    LET m == update(events)
    IN  IF m.status = "ok" THEN Some(UserOf(events, m.value)) ELSE None

\* a user whose list of events was emptied after construction: User keeps
\* the list it was handed (self.events = events), and the means are those
\* of the last update()
EmptiedUser(events) ==
    LET m == update(events)
    IN  IF m.status = "ok" THEN Some(UserOf(<<>>, m.value)) ELSE None

Users ==
    ({User(evs) : evs \in SeqsUpTo(PastEvents, MaxHistory)} \ {None})
    \cup {EmptiedUser(<<Object(3, Event("music", 40, 5, 80, Hour(3), Hour(19)))>>)}

\* the preferred_times and categories arguments; the weights in hundredths
PreferredTimes == <<<<Hour(18), Hour(2)>>, <<Hour(20), Hour(3) \div 2>>>>
Categories ==
    [t \in {"music", "tech", "science"} |->
        CASE t = "music" -> 90 [] t = "tech" -> 60 [] t = "science" -> 100]
EmptyDict == [t \in {} |-> 0]

\* the two forms of the budget argument: one global value, or a mapping
\* from category to budget with a "global" key
GlobalBudget(v) == [form |-> "value", amount |-> v, mapping |-> EmptyDict]
BudgetMapping(m) == [form |-> "mapping", amount |-> 0, mapping |-> m]
CategoryBudgets == [k \in {"music", "global"} |-> IF k = "music" THEN 20 ELSE 10]

\* an event the user attended earlier
AttendedEvent == Object(1, Event("music", 40, 5, 80, Hour(3), Hour(19)))

\* the objects db.Preferences builds: the categories and the attended
\* events absent, empty or set; the
\* maximum distance, the preferred times and the budget absent, empty or
\* set; and the defaults of the constructor
BuiltPreferences ==
    {Preferences(10, cats, Some(PreferredTimes), Some(GlobalBudget(100)), att) :
        cats \in {None, Some(EmptyDict), Some(Categories)},
        att \in {None, Some(<<>>), Some(<<AttendedEvent>>)}}
    \cup {Preferences(md, Some(Categories), times, budget, Some(<<AttendedEvent>>)) :
            md \in {10, 0},
            times \in {None, Some(<<>>), Some(PreferredTimes)},
            budget \in {None, Some(GlobalBudget(100)), Some(BudgetMapping(CategoryBudgets))}}
    \cup {Preferences(50, None, None, None, None)}

\* the budget mappings score_budget reads
BudgetMappings ==
    {EmptyDict,
     [k \in {"global"} |-> 10],
     [k \in {"music"} |-> 20],
     [k \in {"music", "global"} |-> IF k = "music" THEN 0 ELSE 10],
     [k \in {"music", "global"} |-> IF k = "music" THEN 20 ELSE -10]}

\* a preferences object that also carries the attribute budget_for_category
WithBudgetForCategory(p, b) ==
    [k \in DOMAIN p \cup {"budget_for_category"} |->
        IF k = "budget_for_category" THEN b ELSE p[k]]

PreferencesObjects ==
    BuiltPreferences
    \cup {WithBudgetForCategory(
              Preferences(10, Some(Categories), Some(PreferredTimes), Some(GlobalBudget(100)),
                          Some(<<AttendedEvent>>)), b) :
            b \in BudgetMappings}

\* events with starts off the hour and durations of 1.5 to 5 hours
SampleEvents ==
    {Event("music", 45, 3, 75, Hour(2), Hour(18) + 9 * 60 + 47),
     Event("tech", 120, 8, 85, Hour(5), Hour(20) + 9 * 60 + 47),
     Event("standup", 50, 1, 85, Hour(5), Hour(21) + 9 * 60 + 47),
     Event("science", 0, 0, 100, Hour(3) \div 2, Hour(20))}

\* further events: prices below, at and above the budgets, a negative price,
\* a popularity above 100, a duration 0
OtherEvents ==
    {Event(t, p, x[1], x[2], x[3], x[4]) :
        t \in {"music", "art"},
        p \in {-5, 0, 10, 20, 40},
        x \in {<<0, 100, Hour(2), Hour(18)>>, <<60, 75, Hour(1), Hour(20)>>,
               <<25, 150, 0, Hour(2)>>}}

\* the events handed to the scorer: new objects, the attended event itself,
\* and a second object built from the arguments of the attended event
ScoredEvents ==
    {Object(2, e) : e \in SampleEvents \cup OtherEvents}
    \cup {AttendedEvent, Object(2, Event("music", 40, 5, 80, Hour(3), Hour(19)))}

\* a call that also caches a score in the event's score field
Call_caching_score(op, r) ==
    /\ out' = [op |-> op, status |-> r.status, value |-> r.value]
    /\ event' = Some([Get(event) EXCEPT !.score = Get(event).score + 1])
    /\ UNCHANGED <<sim, rec, user, prefs>>

\* a call of a method of the scorer: it assigns to no attribute of the user,
\* the preferences or the event
Call(op, r) ==
    /\ out' = [op |-> op, status |-> r.status, value |-> r.value]
    /\ UNCHANGED <<sim, rec, user, prefs, event>>

ComputeFeatures == Call("compute_features", compute_features(Get(user), Get(prefs), Get(event)))
ScoreBudget == Call("score_budget", score_budget(Get(prefs), Get(event)))
ScoreDistance == Call("score_distance", score_distance(Get(prefs), Get(event)))
ScoreInterest == Call("score_interest", score_interest(Get(user), Get(prefs), Get(event)))
HistoryBoost == Call("_history_boost", history_boost(Get(prefs), Get(event)))
ScoreStartHour == Call("score_start_hour", score_start_hour(Get(prefs), Get(event)))
ScoreLength == Call("score_length", score_length(Get(user), Get(event)))

\* Preferences.add_attended_event(event): "event not in None" raises
\* TypeError; "in" finds the object itself, not one with equal fields
add_attended_event ==
    LET p == Get(prefs)
        e == Get(event)
    IN  /\ prefs' =
               IF IsNone(p.attended_events) THEN prefs
               ELSE IF \E i \in DOMAIN Get(p.attended_events) : Get(p.attended_events)[i].id = e.id
                    THEN prefs
                    ELSE Some([p EXCEPT !.attended_events = Some(Append(Get(@), e))])
        /\ out' = [op |-> "add_attended_event",
                   status |-> IF IsNone(p.attended_events) THEN "TypeError" ELSE "ok",
                   value |-> Zero]
        /\ UNCHANGED <<sim, rec, user, event>>

InitScorer ==
    /\ sim = FreshSim
    /\ rec = <<>>
    /\ user \in Users
    /\ prefs \in {Some(p) : p \in PreferencesObjects}
    /\ event \in {Some(e) : e \in ScoredEvents}
    /\ out = NoCall

NextScorer ==
    \/ ComputeFeatures
    \/ ScoreBudget
    \/ ScoreDistance
    \/ ScoreInterest
    \/ HistoryBoost
    \/ ScoreStartHour
    \/ ScoreLength
    \/ add_attended_event

SpecScorer == InitScorer /\ [][NextScorer]_vars

(***************************************************************************)
(* The entities of db.py: constructing events and users, appending events  *)
(***************************************************************************)
MaxInitial == 1
MaxEvents == 3

\* the arguments Event.__init__ is called with, negative numbers included
EventArguments ==
    {<<p, x[1], x[2], x[3]>> :
        p \in {-5, 0, 40},
        x \in {<<5, 80, Hour(2)>>, <<-1, -10, -Hour(1)>>}}

\* Event(name, event_type, price, distance, popularity, description,
\*       event_length, start_hour)
NewEvent(a) ==
    /\ event' = Some(Event("music", a[1], a[2], a[3], a[4], Hour(18)))
    /\ out' = [op |-> "Event", status |-> "ok", value |-> Zero]
    /\ UNCHANGED <<sim, rec, user, prefs>>

\* User(events, text_profile_descriptions)
NewUser(events) ==
    /\ user' = IF update(events).status = "ok" THEN User(events) ELSE user
    /\ out' = [op |-> "User", status |-> update(events).status, value |-> Zero]
    /\ UNCHANGED <<sim, rec, prefs, event>>

\* User.append_event(event)
append_event ==
    /\ ~IsNone(user)
    /\ ~IsNone(event)
    /\ Len(Get(user).events) < MaxEvents
    /\ LET events == Append(Get(user).events, Get(event))
       IN  /\ user' = User(events)
           /\ out' = [op |-> "append_event", status |-> update(events).status,
                      value |-> Zero]
    /\ UNCHANGED <<sim, rec, prefs, event>>

InitEntities ==
    /\ sim = FreshSim
    /\ rec = <<>>
    /\ user = None
    /\ prefs = None
    /\ event = None
    /\ out = NoCall

NextEntities ==
    \/ \E a \in EventArguments : NewEvent(a)
    \/ \E events \in SeqsUpTo({Event("music", a[1], a[2], a[3], a[4], Hour(18)) :
                                  a \in EventArguments}, MaxInitial) : NewUser(events)
    \/ append_event

SpecEntities == InitEntities /\ [][NextEntities]_vars

(***************************************************************************)
(* getRecommendationLabel called on its own, on the crisp values n/LabelDen *)
(* of the output universe [0, 1] in X units                                *)
(***************************************************************************)
LabelDen == 2

OutputUniverse == 0..(LabelDen * XOne)

\* getRecommendationLabel(output)
LabelCall(n) ==
    /\ out' = [op |-> "getRecommendationLabel", status |-> "ok",
               value |-> [n |-> n, d |-> LabelDen,
                          label |-> getRecommendationLabel(n, LabelDen)]]
    /\ UNCHANGED <<sim, rec, user, prefs, event>>

InitLabel ==
    /\ sim = FreshSim
    /\ rec = <<>>
    /\ user = None
    /\ prefs = None
    /\ event = None
    /\ out = NoCall

NextLabel == \E n \in OutputUniverse : LabelCall(n)

SpecLabel == InitLabel /\ [][NextLabel]_vars

(***************************************************************************)
(* The claims                                                              *)
(***************************************************************************)
NoRuleFires(inp) == \A term \in Terms : Max(create_rules(inp)[term]) = 0

\* C1: a call whose inputs fire no rule returns the neutral default, label
\* "medium" and percent 50.0, and raises nothing.
C1_RuleGapFallsBackToDefault ==
    \A i \in DOMAIN rec :
        NoRuleFires(rec[i].inp) =>
            /\ rec[i].status = "ok"
            /\ rec[i].label = "medium"
            /\ rec[i].num = 50 * rec[i].den

\* an object as the constructor of db.Preferences leaves it
BuiltByConstructor(p) == "budget_for_category" \notin DOMAIN p

\* the budget that applies to a category under the budget of db.Preferences:
\* the budget of the category, else the "global" one, else 0
ApplicableBudget(budget, category) ==
    IF IsNone(budget) THEN 0
    ELSE IF Get(budget).form = "value" THEN Get(budget).amount
    ELSE LET m == Get(budget).mapping
         IN  IF category \in DOMAIN m THEN m[category]
             ELSE IF "global" \in DOMAIN m THEN m["global"] ELSE 0

\* the score of a price under an applicable budget b
BudgetScore(price, b) ==
    IF price <= 0 THEN One
    ELSE IF b <= 0 THEN Zero
    ELSE clamp(Frac(b - price, b))

\* C2: on the preferences db.Preferences builds, score_budget raises nothing
\* and scores the price against the budget of the event's category, else
\* the global budget, else 0, whichever of its two forms the budget has.
C2_BudgetLookupSucceeds ==
    (out.op = "score_budget" /\ BuiltByConstructor(Get(prefs))) =>
        /\ out.status = "ok"
        /\ FracEq(out.value,
                  BudgetScore(Get(event).price,
                              ApplicableBudget(Get(prefs).budget, Get(event).type)))

\* the budget score_budget has resolved for the event, when it has one
ResolvedBudget ==
    LET b == Get(prefs).budget_for_category
    IN  IF Get(event).type \in DOMAIN b THEN b[Get(event).type]
        ELSE IF "global" \in DOMAIN b THEN b["global"] ELSE 0

\* C3: with the applicable budget b resolved, score_budget gives 1 for a
\* price <= 0, 0 for b <= 0 and a price > 0, 0 at price = b and at price = 2b,
\* exactly 1 - price/b for 0 < price <= b, and always a value in [0, 1].
C3_BudgetScoreValues ==
    (out.op = "score_budget" /\ out.status = "ok") =>
        LET price == Get(event).price
            b == ResolvedBudget
        IN  /\ InUnit(out.value)
            /\ price <= 0 => FracEq(out.value, One)
            /\ (b <= 0 /\ price > 0) => FracEq(out.value, Zero)
            /\ (price = b /\ b > 0) => FracEq(out.value, Zero)
            /\ (price = 2 * b /\ b > 0) => FracEq(out.value, Zero)
            /\ (0 < price /\ price <= b) => FracEq(out.value, Frac(b - price, b))

\* C3, reached: a price strictly inside the budget scored 1 - price/b
C3_Witness ==
    /\ out.op = "score_budget"
    /\ out.status = "ok"
    /\ 0 < Get(event).price
    /\ Get(event).price < ResolvedBudget
    /\ FracEq(out.value, Half)

NonNegative(e) ==
    e.price >= 0 /\ e.distance >= 0 /\ e.popularity >= 0 /\ e.event_length >= 0

FullyConfigured(p) ==
    /\ BuiltByConstructor(p)
    /\ ~IsNone(p.categories)
    /\ ~IsNone(p.preferred_times)
    /\ ~IsNone(p.budget)
    /\ ~IsNone(p.attended_events)

FeatureKeys == {"price", "distance", "popularity", "interest", "start_hour", "length"}

\* C4: for a non-negative event and preferences with every item set,
\* compute_features returns the six scores, each in [0, 1].
C4_FeaturesInUnitInterval ==
    (/\ out.op = "compute_features"
     /\ NonNegative(Get(event))
     /\ FullyConfigured(Get(prefs))) =>
        /\ out.status = "ok"
        /\ DOMAIN out.value = FeatureKeys
        /\ \A k \in FeatureKeys : InUnit(out.value[k])

Absent(o) == IsNone(o) \/ DOMAIN Get(o) = {}

\* C5: with a configuration item absent, the scorer of that dimension
\* raises nothing and returns the neutral 0.5, and compute_features still
\* returns all six scores.
C5_AbsentConfigurationIsNeutral ==
    BuiltByConstructor(Get(prefs)) =>
        /\ out.op = "compute_features" =>
              out.status = "ok" /\ DOMAIN out.value = FeatureKeys
        /\ (out.op = "score_start_hour" /\ Absent(Get(prefs).preferred_times)) =>
              out.status = "ok" /\ FracEq(out.value, Half)
        /\ (out.op = "score_distance" /\ Get(prefs).max_distance <= 0) =>
              out.status = "ok" /\ FracEq(out.value, Half)
        /\ (out.op = "score_budget" /\ IsNone(Get(prefs).budget)) =>
              out.status = "ok" /\ FracEq(out.value, Half)
        /\ (out.op = "_history_boost" /\ Absent(Get(prefs).attended_events)) =>
              out.status = "ok" /\ FracEq(out.value, Half)
        /\ (out.op = "score_interest" /\ Absent(Get(prefs).categories)) =>
              out.status = "ok"

Uniform(t) == Inputs(t, t, t, t, t, t)

\* C6: all six scores 1.0 give "high" with percent >= 70, all 0.0 give "low"
\* with percent <= 40, all 0.5 give "medium", the percent always in [0, 100].
C6_UniformVerdicts ==
    \A i \in DOMAIN rec :
        LET r == rec[i]
        IN  /\ r.inp = Uniform(10) =>
                  r.status = "ok" /\ r.label = "high" /\ r.num >= 70 * r.den
            /\ r.inp = Uniform(0) =>
                  r.status = "ok" /\ r.label = "low" /\ r.num <= 40 * r.den
            /\ r.inp = Uniform(5) => r.status = "ok" /\ r.label = "medium"
            /\ r.inp \in {Uniform(0), Uniform(5), Uniform(10)} =>
                  0 <= r.num /\ r.num <= 100 * r.den

\* C6, reached: one instance gave "high" on all 1.0 and then "low" on all 0.0
C6_Witness ==
    /\ Len(rec) = 2
    /\ rec[1].inp = Uniform(10) /\ rec[1].label = "high"
    /\ rec[2].inp = Uniform(0) /\ rec[2].label = "low"

InterestSweep(inp) == \E t \in 0..10 : inp = Inputs(5, 5, 5, t, 5, 5)

\* C7: with the five other scores at 0.5, a call with the larger interest
\* never returns the smaller percent.
C7_MonotoneInInterest ==
    \A i, j \in DOMAIN rec :
        (/\ InterestSweep(rec[i].inp)
         /\ InterestSweep(rec[j].inp)
         /\ rec[i].inp.interest_match <= rec[j].inp.interest_match) =>
            /\ rec[i].status = "ok"
            /\ rec[j].status = "ok"
            /\ LeqFrac(rec[i].num, rec[i].den, rec[j].num, rec[j].den)

\* C7, reached: the percent rose strictly from interest 0.0 to interest 1.0
C7_Witness ==
    /\ Len(rec) = 2
    /\ rec[1].inp = Inputs(5, 5, 5, 0, 5, 5)
    /\ rec[2].inp = Inputs(5, 5, 5, 10, 5, 5)
    /\ ~LeqFrac(rec[2].num, rec[2].den, rec[1].num, rec[1].den)

\* C8: whatever calls went before on the instance, a call returns what the
\* first call with the same inputs returns on a fresh instance.
C8_ResultDependsOnInputsOnly ==
    \A i \in DOMAIN rec :
        rec[i] = recommendation(rec[i].inp, compute(FreshSim, rec[i].inp))

\* C8, reached: a call after a failed call, with other inputs, returned a
\* verdict, and the simulation holds state of both
C8_Witness ==
    /\ Len(rec) = 2
    /\ rec[1].status = "ValueError"
    /\ rec[2].status = "ok"
    /\ rec[2].inp \in sim.calculated
    /\ rec[1].inp \in DOMAIN sim.cuts

MeanOf(events, field) == Frac(SumOf(events, field), Len(events))

\* C9: no operation on a User fails, construction from an empty list
\* included, and the three means are those of the events the user holds.
C9_AggregatesConsistentNoFailure ==
    /\ out.op \in {"User", "append_event"} => out.status = "ok"
    /\ ~IsNone(user) =>
          LET u == Get(user)
          IN  /\ Len(u.events) > 0
              /\ FracEq(u.mean_price, MeanOf(u.events, "price"))
              /\ FracEq(u.mean_distance, MeanOf(u.events, "distance"))
              /\ FracEq(u.mean_popularity, MeanOf(u.events, "popularity"))

\* C10: no Event with a negative price, distance, popularity or duration
\* is constructed: the constructor fails on it.
C10_NegativeEventRejected ==
    ~IsNone(event) => NonNegative(Get(event))

\* C11: a call of compute_features leaves the event (its score field
\* included), the user (events and means) and the preferences as they
\* were, and a call that follows a call returns the same mapping.
C11_NoSideEffects ==
    [][out'.op = "compute_features" =>
          /\ event' = event
          /\ user' = user
          /\ prefs' = prefs
          /\ out.op = "compute_features" => out' = out]_vars

\* C11, reached: compute_features returned its six scores for a user with
\* a history and the score field of the event is still 0
C11_Witness ==
    /\ out.op = "compute_features"
    /\ out.status = "ok"
    /\ DOMAIN out.value = FeatureKeys
    /\ Get(event).score = 0
    /\ Len(Get(user).events) = MaxHistory

\* the seconds of the event's window [start, start + duration) that lie in
\* one of the preferred windows
OverlapSeconds(e, times) ==
    Cardinality({m \in e.start_hour..(e.start_hour + e.event_length - 1) :
                    \E i \in DOMAIN times :
                        times[i][1] <= m /\ m < times[i][1] + times[i][2]})

\* the time score as the overlap ratio
OverlapRatio(p, e) ==
    IF Absent(p.preferred_times) THEN Half
    ELSE IF e.event_length <= 0 THEN Zero
    ELSE Frac(OverlapSeconds(e, Get(p.preferred_times)), e.event_length)

\* C12: the time score is the overlap of the event's window with the union
\* of the preferred windows over the event's duration, 0.5 without preferred
\* windows and 0 for a duration <= 0; an event inside the second preferred
\* window scores 1.
C12_TimeScoreIsOverlapRatio ==
    (out.op = "score_start_hour" /\ out.status = "ok") =>
        FracEq(out.value, OverlapRatio(Get(prefs), Get(event)))

\* 1 - |duration - mean duration| / mean duration, clamped to [0, 1], for
\* past events of total duration total > 0
LengthMatch(e, events) ==
    LET total == SumOf(events, "event_length")
    IN  clamp(Frac(total - Abs(Len(events) * e.event_length - total), total))

\* C13: score_length is 1 minus the normalized distance of the event's
\* duration from the mean duration of the user's past events, clamped to
\* [0, 1], and 0.5 for a user without past events.
C13_LengthScore ==
    (out.op = "score_length" /\ out.status = "ok") =>
        IF Len(Get(user).events) = 0
        THEN FracEq(out.value, Half)
        ELSE FracEq(out.value, LengthMatch(Get(event), Get(user).events))

\* the firing strengths of the canonical rule set: min inside a conjunction,
\* max inside a disjunction and across the rules of one consequent, and the
\* complement for "neither high nor medium"
CanonicalRules(inp) ==
    LET m(var, term) == mu(inp, var, term)
    IN  [high   |-> Max({Min({m("price_match", "high"), m("distance_match", "high"),
                              m("interest_match", "high")}),
                         Min({m("price_match", "high"), m("popularity_range", "high"),
                              m("interest_match", "high")}),
                         Min({m("interest_match", "high"), m("start_hour_match", "high"),
                              m("length_match", "high")})}),
         medium |-> Max({Min({Max({m("price_match", "medium"),
                                   m("distance_match", "medium")}),
                              m("interest_match", "medium")}),
                         Min({m("interest_match", "high"),
                              Max({m("price_match", "low"), m("distance_match", "low")})}),
                         Min({Max({m("popularity_range", "medium"),
                                   m("length_match", "medium")}),
                              m("interest_match", "medium")})}),
         low    |-> Max({Min({m("interest_match", "low"), m("price_match", "low")}),
                         Min({m("interest_match", "low"), m("distance_match", "low")}),
                         Min({YOne - m("interest_match", "high"),
                              YOne - m("interest_match", "medium")})})]

\* C14: for every input combination the engine has calculated, the firing
\* strength of each output term is the one the canonical rule set gives it.
C14_RuleBaseIsCanonical ==
    \A inp \in DOMAIN sim.cuts :
        \A term \in Terms : sim.cuts[inp][term] = CanonicalRules(inp)[term]

\* the triangle a/b/c at the value n/d, as a fraction; the vertices in
\* tenths of the universe
Triangle(a, b, c, n, d) ==
    LET ua == Tenth(a)
        ub == Tenth(b)
        uc == Tenth(c)
    IN  IF ua * d < n /\ n <= ub * d THEN Frac(n - ua * d, (ub - ua) * d)
        ELSE IF ub * d <= n /\ n < uc * d THEN Frac(uc * d - n, (uc - ub) * d)
        ELSE IF n = ub * d THEN One
        ELSE Zero

\* the memberships of n/d in the output sets low = 0/0.2/0.4,
\* medium = 0.3/0.5/0.8, high = 0.7/1/1
OutputMembership(term, n, d) ==
    CASE term = "low"    -> Triangle(0, 2, 4, n, d)
      [] term = "medium" -> Triangle(3, 5, 8, n, d)
      [] term = "high"   -> Triangle(7, 10, 10, n, d)

\* the labels that come before a label in the order low, medium, high
Earlier(term) ==
    CASE term = "low"    -> {}
      [] term = "medium" -> {"low"}
      [] term = "high"   -> {"low", "medium"}

\* C15: the label of a crisp output value is one of low, medium, high, its
\* membership in the output sets is maximal, and no label earlier in the
\* order low, medium, high has the same membership.
C15_LabelIsFirstMaximal ==
    out.op = "getRecommendationLabel" =>
        LET v == out.value
            m(term) == OutputMembership(term, v.n, v.d)
        IN  /\ v.label \in Terms
            /\ \A term \in Terms : FracLeq(m(term), m(v.label))
            /\ \A term \in Earlier(v.label) : ~FracEq(m(term), m(v.label))

\* C15, reached: at 0.75, where medium and high have the same membership
\* above 0, the label is "medium"
C15_Witness ==
    /\ out.op = "getRecommendationLabel"
    /\ 4 * out.value.n = 3 * XOne * out.value.d
    /\ FracEq(OutputMembership("medium", out.value.n, out.value.d),
              OutputMembership("high", out.value.n, out.value.d))
    /\ ~FracEq(OutputMembership("medium", out.value.n, out.value.d), Zero)
    /\ out.value.label = "medium"

====
